---- MODULE Spec2Model ----
(***************************************************************************)
(* Model of src/ingestion.py: the NHTSA recall extraction script.          *)
(*                                                                         *)
(* One invocation of the script is a process p.  Its statements are the    *)
(* actions below; the only shared state is the output file                 *)
(* OUTPUT_FILENAME in the current working directory.                       *)
(***************************************************************************)
EXTENDS Integers, Sequences, FiniteSets, TLC

(***************************************************************************)
(* Bounds of the model.                                                    *)
(***************************************************************************)
\* longest 'results' array a response carries
MaxElems == 2
\* tokens held by the file object's write buffer before it is flushed
BufSize == 6

\* the invocations of the script (two, so that one can follow or race another)
Procs == {1, 2}

(***************************************************************************)
(* JSON values.  Every value is a record of the same shape:                *)
(*   k    : "null" | "num" | "str" | "arr" | "obj"                         *)
(*   n    : the number of a "num"                                          *)
(*   s    : the text of a "str"                                            *)
(*   keys : the keys of an "obj", in document order                        *)
(*   a    : the elements of an "arr", or the values of an "obj"            *)
(***************************************************************************)
JNull == [k |-> "null", n |-> 0, s |-> "", keys |-> <<>>, a |-> <<>>]
JNum(i) == [k |-> "num", n |-> i, s |-> "", keys |-> <<>>, a |-> <<>>]
JStr(t) == [k |-> "str", n |-> 0, s |-> t, keys |-> <<>>, a |-> <<>>]
JArr(elems) == [k |-> "arr", n |-> 0, s |-> "", keys |-> <<>>, a |-> elems]
JObj(ks, vs) == [k |-> "obj", n |-> 0, s |-> "", keys |-> ks, a |-> vs]

\* dict membership: 'results' in raw_data
HasKey(doc, key) == doc.k = "obj" /\ \E i \in 1..Len(doc.keys) : doc.keys[i] = key

\* dict subscript raw_data[key], defined when HasKey(doc, key)
GetKey(doc, key) == doc.a[CHOOSE i \in 1..Len(doc.keys) : doc.keys[i] = key]

(***************************************************************************)
(* json.dump(value, f, indent=4): the text written, as a sequence of       *)
(* lexical tokens.  A token stands for the bytes it is made of.            *)
(***************************************************************************)
\* the encoder's quoting of a string
Quote(t) ==
  CASE t = "A" -> "\"A\""
    [] t = "B" -> "\"B\""
    [] t = "id" -> "\"id\""
    [] t = "Count" -> "\"Count\""
    [] t = "results" -> "\"results\""
    [] OTHER -> "\"\""

\* the encoder's rendering of an integer
Digits(i) ==
  CASE i = 0 -> "0"
    [] i = 1 -> "1"
    [] i = 2 -> "2"
    [] OTHER -> "3"

\* newline followed by 4 spaces per nesting level (indent=4)
NewlineIndent(level) ==
  CASE level = 0 -> "\n"
    [] level = 1 -> "\n    "
    [] level = 2 -> "\n        "
    [] OTHER -> "\n            "

RECURSIVE Encode(_, _)
RECURSIVE EncodeItems(_, _, _)
\* the items of an array or the members of an object from index i on
EncodeItems(v, i, level) ==
  IF i > Len(v.a) THEN <<>>
  ELSE (IF i > 1 THEN <<",">> ELSE <<>>)
       \o <<NewlineIndent(level)>>
       \o (IF v.k = "obj" THEN <<Quote(v.keys[i]), ": ">> ELSE <<>>)
       \o Encode(v.a[i], level)
       \o EncodeItems(v, i + 1, level)

Encode(v, level) ==
  CASE v.k = "null" -> <<"null">>
    [] v.k = "num" -> <<Digits(v.n)>>
    [] v.k = "str" -> <<Quote(v.s)>>
    [] v.k = "arr" ->
         IF Len(v.a) = 0 THEN <<"[", "]">>
         ELSE <<"[">> \o EncodeItems(v, 1, level + 1)
              \o <<NewlineIndent(level), "]">>
    [] OTHER ->
         IF Len(v.a) = 0 THEN <<"{", "}">>
         ELSE <<"{">> \o EncodeItems(v, 1, level + 1)
              \o <<NewlineIndent(level), "}">>

Dump(v) == Encode(v, 0)

(***************************************************************************)
(* json.load of a file's text: a recursive-descent parser over the tokens. *)
(* The result is [ok, val, next]: whether a value was read, the value, and *)
(* the index of the first token after it.                                  *)
(***************************************************************************)
Whitespace == {"\n", "\n    ", "\n        ", "\n            "}
StrTokens == {"\"A\"", "\"B\"", "\"id\"", "\"Count\"", "\"results\""}
NumTokens == {"0", "1", "2", "3"}

Unquote(tok) ==
  CASE tok = "\"A\"" -> "A"
    [] tok = "\"B\"" -> "B"
    [] tok = "\"id\"" -> "id"
    [] tok = "\"Count\"" -> "Count"
    [] OTHER -> "results"

Number(tok) ==
  CASE tok = "0" -> 0
    [] tok = "1" -> 1
    [] tok = "2" -> 2
    [] OTHER -> 3

RECURSIVE SkipWs(_, _)
SkipWs(toks, i) ==
  IF i <= Len(toks) /\ toks[i] \in Whitespace THEN SkipWs(toks, i + 1) ELSE i

ParseFail == [ok |-> FALSE, val |-> JNull, next |-> 0]

RECURSIVE ParseValue(_, _)
RECURSIVE ParseItems(_, _, _, _, _)
\* the items after an opening bracket; ks and vs are what was read so far
ParseItems(toks, i0, isObj, ks, vs) ==
  LET i == SkipWs(toks, i0)
      closer == IF isObj THEN "}" ELSE "]"
  IN IF i > Len(toks) THEN ParseFail
     ELSE IF toks[i] = closer /\ Len(vs) = 0
       THEN [ok |-> TRUE, val |-> IF isObj THEN JObj(ks, vs) ELSE JArr(vs),
             next |-> i + 1]
     ELSE
       LET hasKey == isObj /\ toks[i] \in StrTokens
                     /\ i + 1 <= Len(toks) /\ toks[i + 1] = ": "
           j == IF isObj THEN i + 2 ELSE i
           r == IF isObj /\ ~hasKey THEN ParseFail ELSE ParseValue(toks, j)
       IN IF ~r.ok THEN ParseFail
          ELSE LET ks2 == IF isObj THEN Append(ks, Unquote(toks[i])) ELSE ks
                   vs2 == Append(vs, r.val)
                   m == SkipWs(toks, r.next)
               IN IF m > Len(toks) THEN ParseFail
                  ELSE IF toks[m] = closer
                    THEN [ok |-> TRUE,
                          val |-> IF isObj THEN JObj(ks2, vs2) ELSE JArr(vs2),
                          next |-> m + 1]
                  ELSE IF toks[m] = ","
                    THEN LET rest == ParseItems(toks, m + 1, isObj, ks2, vs2)
                         IN IF rest.ok /\ Len(rest.val.a) > Len(vs2)
                              THEN rest ELSE ParseFail
                  ELSE ParseFail

ParseValue(toks, i0) ==
  LET i == SkipWs(toks, i0)
  IN IF i > Len(toks) THEN ParseFail
     ELSE CASE toks[i] = "null" -> [ok |-> TRUE, val |-> JNull, next |-> i + 1]
            [] toks[i] \in NumTokens ->
                 [ok |-> TRUE, val |-> JNum(Number(toks[i])), next |-> i + 1]
            [] toks[i] \in StrTokens ->
                 [ok |-> TRUE, val |-> JStr(Unquote(toks[i])), next |-> i + 1]
            [] toks[i] = "[" -> ParseItems(toks, i + 1, FALSE, <<>>, <<>>)
            [] toks[i] = "{" -> ParseItems(toks, i + 1, TRUE, <<>>, <<>>)
            [] OTHER -> ParseFail

\* the whole text is one JSON value, with nothing but whitespace after it
Load(toks) ==
  LET r == ParseValue(toks, 1)
  IN IF r.ok /\ SkipWs(toks, r.next) > Len(toks)
       THEN [ok |-> TRUE, val |-> r.val]
       ELSE [ok |-> FALSE, val |-> JNull]

ValidJSON(toks) == Load(toks).ok

(***************************************************************************)
(* What requests.get may come back with.                                   *)
(*   net    : "ok", or the transport error that was raised                 *)
(*   status : the HTTP status code of the final response                   *)
(*   json   : whether the body parses as JSON                              *)
(*   body   : the parsed body, when json                                   *)
(***************************************************************************)
Elems == {JObj(<<"id">>, <<JStr("A")>>), JObj(<<"id">>, <<JStr("B")>>)}

RECURSIVE SeqsUpTo(_, _)
SeqsUpTo(S, n) ==
  IF n = 0 THEN {<<>>}
  ELSE LET shorter == SeqsUpTo(S, n - 1)
       IN shorter \cup {Append(q, e) : q \in shorter, e \in S}

\* the values found under 'results': arrays of records, or something else
ResultsValues == {JArr(q) : q \in SeqsUpTo(Elems, MaxElems)} \cup {JNull}

Documents ==
  {JObj(<<"Count", "results">>, <<JNum(Len(r.a)), r>>) : r \in ResultsValues}
  \cup {JObj(<<"Count">>, <<JNum(0)>>)}
  \cup {JArr(<<>>), JStr("A"), JNum(2), JNull}

Response(net, status, json, body) ==
  [net |-> net, status |-> status, json |-> json, body |-> body]

Responses ==
  {Response("refused", 0, FALSE, JNull), Response("timeout", 0, FALSE, JNull)}
  \cup {Response("ok", 404, FALSE, JNull), Response("ok", 503, FALSE, JNull)}
  \cup {Response("ok", st, FALSE, JNull) : st \in {200, 300}}
  \cup {Response("ok", st, TRUE, d) : st \in {200, 300}, d \in Documents}

NoResponse == Response("none", 0, FALSE, JNull)

(***************************************************************************)
(* The output file: whether it exists, and its text.                       *)
(***************************************************************************)
NoFile == [exists |-> FALSE, data |-> <<>>]

\* a byte of a hole left by a write beyond the end of the file
NUL == "\\0"

Max(a, b) == IF a >= b THEN a ELSE b

Take(q, n) == SubSeq(q, 1, IF n <= Len(q) THEN n ELSE Len(q))
Drop(q, n) == SubSeq(q, (IF n <= Len(q) THEN n ELSE Len(q)) + 1, Len(q))

\* write(fd, text) at the descriptor's position pos
WriteAt(data, pos, text) ==
  [i \in 1..Max(Len(data), pos + Len(text)) |->
     IF i > pos /\ i <= pos + Len(text) THEN text[i - pos]
     ELSE IF i <= Len(data) THEN data[i]
     ELSE NUL]

\* open(OUTPUT_FILENAME, 'w') keeps the old text: the 'w' flag is lost
OpenKeep(f) == [exists |-> TRUE, data |-> f.data]

\* open(OUTPUT_FILENAME, 'w'): create the file, or truncate it
OpenTruncate(f) == [exists |-> TRUE, data |-> <<>>]

\* the whole document is dumped, not its 'results'
WholeDocument(doc) == doc

\* raw_data['results'], the argument of json.dump
ValueToPersist(doc) == GetKey(doc, "results")

\* response.raise_for_status() raises HTTPError
RaisesForStatus(status) == status >= 400 /\ status < 600

(***************************************************************************)
(* State.                                                                  *)
(***************************************************************************)
VARIABLES
  file,      \* the output file in the working directory
  pc,        \* where each invocation is in the script
  response,  \* what requests.get returned to it
  raw_data,  \* its variable raw_data
  pos,       \* the position of its file descriptor
  todo,      \* the text json.dump has still to get to the file
  out,       \* the lines it has printed (standard output and error)
  exitCode,  \* its exit status, -1 while it has not exited
  gets,      \* the GET requests it has issued
  opened,    \* whether its open() of the output file succeeded
  before,    \* the output file as it was when the invocation started
  latest     \* the invocation started last, 0 before the first

vars == <<file, pc, response, raw_data, pos, todo, out, exitCode, gets,
          opened, before, latest>>

MsgConfiguring == "Configuring date range and API endpoint..."
MsgPeriod == "Data will be fetched for the period"
MsgOutput == "Output will be saved to"
MsgFetching == "Fetching data from NHTSA API..."
MsgFetched == "Successfully fetched recall campaigns."
MsgRequestError == "An error occurred with the API request"
MsgSaving == "Saving raw data to local file"
MsgSaved == "Data successfully saved."
MsgNoResults == "Error: The 'results' key was not found in the API response. Cannot save file."
MsgWriteError == "An error occurred while writing the file"
MsgComplete == "Phase 1 (Extraction) complete."
MsgTraceback == "Traceback (most recent call last)"

Running(p) == pc[p] \notin {"idle", "exited"}

Init ==
  /\ file = NoFile
  /\ pc = [p \in Procs |-> "idle"]
  /\ response = [p \in Procs |-> NoResponse]
  /\ raw_data = [p \in Procs |-> JNull]
  /\ pos = [p \in Procs |-> 0]
  /\ todo = [p \in Procs |-> <<>>]
  /\ out = [p \in Procs |-> <<>>]
  /\ exitCode = [p \in Procs |-> -1]
  /\ gets = [p \in Procs |-> 0]
  /\ opened = [p \in Procs |-> FALSE]
  /\ before = [p \in Procs |-> NoFile]
  /\ latest = 0

(***************************************************************************)
(* Step 2: the script starts and prints its configuration.                 *)
(***************************************************************************)
Configure(p) ==
  /\ pc[p] = "idle"
  /\ pc' = [pc EXCEPT ![p] = "fetch"]
  /\ out' = [out EXCEPT ![p] = @ \o <<MsgConfiguring, MsgPeriod, MsgOutput>>]
  /\ before' = [before EXCEPT ![p] = file]
  /\ latest' = p
  /\ UNCHANGED <<file, response, raw_data, pos, todo, exitCode, gets, opened>>

\* an invocation started while no other one is running
Launch(p) ==
  /\ \A q \in Procs : ~Running(q)
  /\ Configure(p)

\* an invocation started whatever the others are doing
LaunchConcurrent(p) == Configure(p)

(***************************************************************************)
(* Step 3: the GET request, raise_for_status, response.json() and the      *)
(* 'Count' message.  A body that does not parse raises an exception that   *)
(* is a RequestException in some versions of requests (caught) and a       *)
(* plain ValueError in others (not caught).                                *)
(***************************************************************************)
FetchOutcome(resp, jsonErrorCaught) ==
  IF resp.net # "ok" THEN "request_error"
  ELSE IF RaisesForStatus(resp.status) THEN "request_error"
  ELSE IF ~resp.json
    THEN (IF jsonErrorCaught THEN "request_error" ELSE "uncaught")
  ELSE IF resp.body.k # "obj" THEN "uncaught"
  ELSE "ok"

\* except RequestException: print the error and exit()
FetchRequestError(p) ==
  /\ pc[p] = "fetch"
  /\ \E resp \in Responses, caught \in BOOLEAN :
       /\ FetchOutcome(resp, caught) = "request_error"
       /\ response' = [response EXCEPT ![p] = resp]
  /\ gets' = [gets EXCEPT ![p] = @ + 1]
  /\ out' = [out EXCEPT ![p] = @ \o <<MsgFetching, MsgRequestError>>]
  /\ exitCode' = [exitCode EXCEPT ![p] = 0]
  /\ pc' = [pc EXCEPT ![p] = "exited"]
  /\ UNCHANGED <<file, raw_data, pos, todo, opened, before, latest>>

\* an exception the except clause does not name ends the script
FetchUncaught(p) ==
  /\ pc[p] = "fetch"
  /\ \E resp \in Responses, caught \in BOOLEAN :
       /\ FetchOutcome(resp, caught) = "uncaught"
       /\ response' = [response EXCEPT ![p] = resp]
       /\ raw_data' = [raw_data EXCEPT ![p] = IF resp.json THEN resp.body ELSE @]
  /\ gets' = [gets EXCEPT ![p] = @ + 1]
  /\ out' = [out EXCEPT ![p] = @ \o <<MsgFetching, MsgTraceback>>]
  /\ exitCode' = [exitCode EXCEPT ![p] = 1]
  /\ pc' = [pc EXCEPT ![p] = "exited"]
  /\ UNCHANGED <<file, pos, todo, opened, before, latest>>

FetchOk(p) ==
  /\ pc[p] = "fetch"
  /\ \E resp \in Responses, caught \in BOOLEAN :
       /\ FetchOutcome(resp, caught) = "ok"
       /\ response' = [response EXCEPT ![p] = resp]
       /\ raw_data' = [raw_data EXCEPT ![p] = resp.body]
  /\ gets' = [gets EXCEPT ![p] = @ + 1]
  /\ out' = [out EXCEPT ![p] = @ \o <<MsgFetching, MsgFetched>>]
  /\ pc' = [pc EXCEPT ![p] = "save"]
  /\ UNCHANGED <<file, pos, todo, exitCode, opened, before, latest>>

(***************************************************************************)
(* Step 5: with open(OUTPUT_FILENAME, 'w') as f:                           *)
(*             json.dump(raw_data['results'], f, indent=4)                 *)
(***************************************************************************)
\* open() succeeds: the file is created or truncated
OpenFile(p) ==
  /\ pc[p] = "save"
  /\ file' = OpenTruncate(file)
  /\ pos' = [pos EXCEPT ![p] = 0]
  /\ opened' = [opened EXCEPT ![p] = TRUE]
  /\ out' = [out EXCEPT ![p] = Append(@, MsgSaving)]
  /\ pc' = [pc EXCEPT ![p] = "lookup"]
  /\ UNCHANGED <<response, raw_data, todo, exitCode, gets, before, latest>>

\* open() raises IOError
OpenFail(p) ==
  /\ pc[p] = "save"
  /\ out' = [out EXCEPT ![p] = @ \o <<MsgSaving, MsgWriteError>>]
  /\ pc' = [pc EXCEPT ![p] = "end"]
  /\ UNCHANGED <<file, response, raw_data, pos, todo, exitCode, gets, opened,
                 before, latest>>

\* raw_data['results'] is found and json.dump starts on it
Lookup(p) ==
  /\ pc[p] = "lookup"
  /\ HasKey(raw_data[p], "results")
  /\ todo' = [todo EXCEPT ![p] = Dump(ValueToPersist(raw_data[p]))]
  /\ pc' = [pc EXCEPT ![p] = "write"]
  /\ UNCHANGED <<file, response, raw_data, pos, out, exitCode, gets, opened,
                 before, latest>>

\* raw_data['results'] raises KeyError: the with block closes the file
LookupKeyError(p) ==
  /\ pc[p] = "lookup"
  /\ ~HasKey(raw_data[p], "results")
  /\ out' = [out EXCEPT ![p] = Append(@, MsgNoResults)]
  /\ pc' = [pc EXCEPT ![p] = "end"]
  /\ UNCHANGED <<file, response, raw_data, pos, todo, exitCode, gets, opened,
                 before, latest>>

\* the write buffer is full and goes to the file
Flush(p) ==
  /\ pc[p] = "write"
  /\ Len(todo[p]) > BufSize
  /\ file' = [file EXCEPT !.data = WriteAt(@, pos[p], Take(todo[p], BufSize))]
  /\ pos' = [pos EXCEPT ![p] = @ + BufSize]
  /\ todo' = [todo EXCEPT ![p] = Drop(@, BufSize)]
  /\ UNCHANGED <<pc, response, raw_data, out, exitCode, gets, opened, before,
                 latest>>

\* a write to the file raises IOError: what was buffered is lost
WriteFail(p) ==
  /\ pc[p] = "write"
  /\ todo' = [todo EXCEPT ![p] = <<>>]
  /\ out' = [out EXCEPT ![p] = Append(@, MsgWriteError)]
  /\ pc' = [pc EXCEPT ![p] = "end"]
  /\ UNCHANGED <<file, response, raw_data, pos, exitCode, gets, opened, before,
                 latest>>

\* json.dump returns, the with block flushes the rest and closes the file
CloseFile(p) ==
  /\ pc[p] = "write"
  /\ Len(todo[p]) <= BufSize
  /\ file' = [file EXCEPT !.data = WriteAt(@, pos[p], todo[p])]
  /\ pos' = [pos EXCEPT ![p] = @ + Len(todo[p])]
  /\ todo' = [todo EXCEPT ![p] = <<>>]
  /\ out' = [out EXCEPT ![p] = Append(@, MsgSaved)]
  /\ pc' = [pc EXCEPT ![p] = "end"]
  /\ UNCHANGED <<response, raw_data, exitCode, gets, opened, before, latest>>

(***************************************************************************)
(* End of the script: the last print, and the interpreter exits.           *)
(***************************************************************************)
Finish(p) ==
  /\ pc[p] = "end"
  /\ out' = [out EXCEPT ![p] = Append(@, MsgComplete)]
  /\ exitCode' = [exitCode EXCEPT ![p] = 0]
  /\ pc' = [pc EXCEPT ![p] = "exited"]
  /\ UNCHANGED <<file, response, raw_data, pos, todo, gets, opened, before,
                 latest>>

Step(p) ==
  \/ FetchRequestError(p)
  \/ FetchUncaught(p)
  \/ FetchOk(p)
  \/ OpenFile(p)
  \/ OpenFail(p)
  \/ Lookup(p)
  \/ LookupKeyError(p)
  \/ Flush(p)
  \/ WriteFail(p)
  \/ CloseFile(p)
  \/ Finish(p)

\* invocations one after the other
Next == \E p \in Procs : Launch(p) \/ Step(p)

Spec == Init /\ [][Next]_vars

\* invocations that may overlap
NextConcurrent == \E p \in Procs : LaunchConcurrent(p) \/ Step(p)

SpecConcurrent == Init /\ [][NextConcurrent]_vars

TypeOK ==
  /\ file.exists \in BOOLEAN
  /\ \A p \in Procs :
       /\ pc[p] \in {"idle", "fetch", "save", "lookup", "write", "end", "exited"}
       /\ exitCode[p] \in {-1, 0, 1}
       /\ gets[p] \in 0..1

(***************************************************************************)
(* Vocabulary of the properties.                                           *)
(***************************************************************************)
Printed(p, msg) == \E i \in 1..Len(out[p]) : out[p][i] = msg

\* the request of p has returned or raised
Fetched(p) == response[p] # NoResponse

Is2xx(resp) == resp.net = "ok" /\ resp.status >= 200 /\ resp.status < 300

\* a network-level error, a non-2xx status, or a body that is not JSON
FetchFailure(resp) == ~Is2xx(resp) \/ ~resp.json

\* the fetched document is an object without a 'results' member
MissingResults(resp) ==
  ~FetchFailure(resp) /\ resp.body.k = "obj" /\ ~HasKey(resp.body, "results")

\* the fetched document is an object whose 'results' is an array
ResultsArray(resp) ==
  /\ ~FetchFailure(resp)
  /\ HasKey(resp.body, "results")
  /\ GetKey(resp.body, "results").k = "arr"

\* the script of p is past its persistence step
PastSave(p) == pc[p] \in {"end", "exited"}

\* the latest invocation is p and nothing runs after it
EndOfRun(p) == latest = p /\ pc[p] = "exited"

ErrorMessages == {MsgRequestError, MsgNoResults, MsgWriteError, MsgTraceback}

RECURSIVE Parts(_)
\* a JSON value and everything nested in it
Parts(v) ==
  {v} \cup UNION {Parts(v.a[i]) : i \in 1..Len(v.a)}

(***************************************************************************)
(* C1.  At the end of a run, a file that the run created or modified holds *)
(* the complete, valid JSON text of a value of that run's successful       *)
(* response; never an empty or partial text.                               *)
(***************************************************************************)
C1_FileIsCompleteJSON ==
  \A p \in Procs :
    (EndOfRun(p) /\ opened[p]) =>
      /\ ~FetchFailure(response[p])
      /\ ValidJSON(file.data)
      /\ \E v \in Parts(response[p].body) : file.data = Dump(v)

(***************************************************************************)
(* C2.  When the fetched document has no 'results' member, the output file *)
(* is left as it was before the run and the condition is reported.         *)
(***************************************************************************)
C2_MissingResultsWritesNothing ==
  \A p \in Procs :
    (latest = p /\ PastSave(p) /\ MissingResults(response[p])) =>
      /\ file = before[p]
      /\ Printed(p, MsgNoResults) \/ Printed(p, MsgWriteError)

(***************************************************************************)
(* C3.  After a 2xx response whose document carries a 'results' array and  *)
(* a write that did not fail, the file parses to exactly that array: the   *)
(* same elements in the same order, not the wrapping object, no 'Count'.   *)
(***************************************************************************)
C3_FileParsesToResults ==
  \A p \in Procs :
    (/\ latest = p
     /\ PastSave(p)
     /\ ResultsArray(response[p])
     /\ ~Printed(p, MsgWriteError)) =>
      /\ file.exists
      /\ Load(file.data).ok
      /\ Load(file.data).val = GetKey(response[p].body, "results")
      /\ Load(file.data).val # response[p].body
      /\ ~HasKey(Load(file.data).val, "Count")

\* a run saved a two-element array
C3_Witness ==
  \E p \in Procs :
    /\ EndOfRun(p)
    /\ ResultsArray(response[p])
    /\ Printed(p, MsgSaved)
    /\ Len(GetKey(response[p].body, "results").a) = 2
    /\ Load(file.data).val.a[1] # Load(file.data).val.a[2]

(***************************************************************************)
(* C4.  On every fetch failure the run prints an error and ends at once,   *)
(* and the output file is as it was before the run.                        *)
(***************************************************************************)
C4_FetchFailureEndsRun ==
  \A p \in Procs :
    (latest = p /\ Fetched(p) /\ FetchFailure(response[p])) =>
      /\ pc[p] = "exited"
      /\ Printed(p, MsgRequestError) \/ Printed(p, MsgTraceback)
      /\ ~opened[p]
      /\ file = before[p]

(***************************************************************************)
(* C5.  A fetch failure or a missing 'results' ends the process with a     *)
(* non-zero exit status; exit status zero comes only from a run that saved *)
(* the file.                                                               *)
(***************************************************************************)
C5_FailureExitsNonZero ==
  \A p \in Procs :
    pc[p] = "exited" =>
      /\ (FetchFailure(response[p]) \/ MissingResults(response[p]))
           => exitCode[p] # 0
      /\ exitCode[p] = 0 => Printed(p, MsgSaved)

(***************************************************************************)
(* C6.  A run issues exactly one GET, and its stages come in the order     *)
(* fetch, extraction of 'results', file write: the file is opened only     *)
(* after the fetch succeeded and the value to persist was obtained.        *)
(***************************************************************************)
C6_OneGetThenExtractThenOpen ==
  \A p \in Procs :
    /\ gets[p] <= 1
    /\ Fetched(p) => gets[p] = 1
    /\ opened[p] =>
         /\ gets[p] = 1
         /\ pc[p] \in {"write", "end", "exited"}
         /\ HasKey(raw_data[p], "results")

(***************************************************************************)
(* C7.  A run that saves leaves exactly the text of its own 'results',     *)
(* whatever the file held before; a second successful run with the same    *)
(* response leaves the file the first one left.                            *)
(***************************************************************************)
C7_SaveOverwrites ==
  \A p \in Procs :
    (latest = p /\ PastSave(p) /\ Printed(p, MsgSaved)) =>
      /\ file = [exists |-> TRUE,
                 data |-> Dump(GetKey(response[p].body, "results"))]
      /\ \A q \in Procs \ {p} :
           (Printed(q, MsgSaved) /\ response[q] = response[p])
             => file = before[p]

\* a run saved over a longer text left by the run before it
C7_Witness ==
  \E p \in Procs :
    /\ EndOfRun(p)
    /\ Printed(p, MsgSaved)
    /\ before[p].exists
    /\ Len(before[p].data) > Len(file.data)
    /\ Len(file.data) > 0

(***************************************************************************)
(* C8.  Nothing is printed after an error diagnostic, and the completion   *)
(* message is printed only by a run that saved the file.                   *)
(***************************************************************************)
C8_FailureIsTerminal ==
  \A p \in Procs :
    /\ \A i \in 1..Len(out[p]) :
         out[p][i] \in ErrorMessages => i = Len(out[p])
    /\ Printed(p, MsgComplete) => Printed(p, MsgSaved)

(***************************************************************************)
(* C9.  After a 2xx response whose body parses as JSON, of whatever kind,  *)
(* the fetch stage hands the value on and no exception goes uncaught.      *)
(***************************************************************************)
C9_AnyJSONValueIsHandled ==
  \A p \in Procs :
    (Fetched(p) /\ ~FetchFailure(response[p])) =>
      /\ raw_data[p] = response[p].body
      /\ ~Printed(p, MsgTraceback)
      /\ Printed(p, MsgFetched)
      /\ exitCode[p] # 1

====
